---------------------------- MODULE Spec2Model ----------------------------
(***************************************************************************)
(* Model of notebooks/05-running_with_dask_on_coiled.ipynb: the per-series *)
(* compression of the long sales table (compress_data under a partitioned  *)
(* transform), its expansion on the worker (format_series), and the        *)
(* back-test and metric reduction (run_model_cv, calculate_metrics,        *)
(* process, best_models).                                                  *)
(*                                                                         *)
(* Calendar dates are day numbers, so "one day later" is +1.  A DataFrame  *)
(* is the sequence of its rows in positional (iloc) order.  A call that    *)
(* can raise returns [status, value]: status "ok" with the value, or the   *)
(* name of the Python exception with an empty value.                       *)
(***************************************************************************)
EXTENDS Integers, Sequences, FiniteSets, TLC

VARIABLES
    combined,     \* the long input table, rows in file order
    pending,      \* partition keys the compressing transform has not run yet
    compressed,   \* the output of the compressing transform, in completion order
    calls,        \* the group handed to each invocation of compress_data
    df,           \* argument of a direct call of compress_data
    out,          \* what that call returned
    arg,          \* argument of a direct call of format_series
    test,         \* what that call returned
    library,      \* the forecasting library's fitted behaviour, fixed for a run
    cell,         \* the next cell of the evaluation part of the notebook
    test2,        \* run_model_cv(test)
    metrics,      \* calculate_metrics(test2)
    todo,         \* unique_id partitions the process transform has not run yet
    tasks,        \* the partition handed to each invocation of process
    results,      \* the output of the process transform, in completion order
    unfit,        \* the (unique_id, model) pairs whose fit raises in this run
    best_models   \* the best_models cell's table, one row per unique_id

vars == <<combined, pending, compressed, calls, df, out, arg, test,
          library, cell, test2, metrics, todo, tasks, results, unfit, best_models>>

dispatchVars == <<combined, pending, compressed, calls>>
unitVars == <<df, out, arg, test>>
evalVars == <<library, cell, test2, metrics, todo, tasks, results, unfit, best_models>>

(***************************************************************************)
(* Bounds of the model.                                                    *)
(***************************************************************************)
MaxSeries == 2      \* series (store/item combinations) in the input table
MaxDate == 3        \* calendar days a row may carry: 1..MaxDate
MaxRows == 3        \* rows of an input table or of a directly passed group

(***************************************************************************)
(* The input table.  A row of `combined` has the six columns the notebook  *)
(* keeps; series k at day d has its own y and sell_price, so that every    *)
(* row is told apart from every other and y from sell_price.  Consecutive  *)
(* days may share a price, as in the sales data.                           *)
(***************************************************************************)
Series == 1..MaxSeries
Dates == 1..MaxDate

store_id(k) == <<"store", (k + 1) \div 2>>
item_id(k) == <<"item", k % 2>>
unique_id(k) == <<"id", k>>

RawRow(k, d) ==
    [unique_id |-> unique_id(k), store_id |-> store_id(k), item_id |-> item_id(k),
     ds |-> d, y |-> 10 * k + d, sell_price |-> 100 * k + 50 + (d \div 2)]

Cells == {RawRow(k, d) : k \in Series, d \in Dates}

Range(s) == {s[i] : i \in 1..Len(s)}

\* Every sequence of at most n distinct rows: one row per (series, day), in any
\* row order.
RECURSIVE TablesUpTo(_)
TablesUpTo(n) ==
    IF n = 0 THEN {<<>>}
    ELSE LET prev == TablesUpTo(n - 1)
             longest == {t \in prev : Len(t) = n - 1}
         IN  prev \cup UNION {{Append(t, c) : c \in Cells \ Range(t)} : t \in longest}

Tables == TablesUpTo(MaxRows)

\* Two series of lengths 5 and 3, their rows interleaved and out of date order.
TwoSeriesTable ==
    <<RawRow(1, 4), RawRow(2, 3), RawRow(1, 1), RawRow(1, 5), RawRow(2, 1),
      RawRow(1, 2), RawRow(2, 2), RawRow(1, 3)>>

\* The sample frame of the test cell: id1/store1/item1 on 2 to 4 January 2020
\* (ds is the day of that month), y 1, 2, 3, prices 2.2, 3.3, 4.4 in tenths.
SampleRow(d, yv, p) ==
    [unique_id |-> unique_id(1), store_id |-> store_id(1), item_id |-> item_id(1),
     ds |-> d, y |-> yv, sell_price |-> p]

SampleData == <<SampleRow(2, 1, 22), SampleRow(3, 2, 33), SampleRow(4, 3, 44)>>

(***************************************************************************)
(* Results of calls.                                                       *)
(***************************************************************************)
Ok(v) == [status |-> "ok", value |-> v]
Raise(e) == [status |-> e, value |-> <<>>]
NotCalled == [status |-> "not called", value |-> <<>>]

(***************************************************************************)
(* compress_data: the first row gives the identity and the start date, the *)
(* y and sell_price columns become two lists in row order.  df.iloc[0] of  *)
(* an empty frame raises IndexError.                                       *)
(***************************************************************************)
tolist(frame, column) == [i \in 1..Len(frame) |-> frame[i][column]]

\* compress_data with the prices list read from the y column.
compress_data_prices_from_y(frame) ==
    IF Len(frame) = 0 THEN Raise("IndexError")
    ELSE Ok(<< [unique_id |-> frame[1].unique_id,
                store_id |-> frame[1].store_id,
                item_id |-> frame[1].item_id,
                start_date |-> frame[1].ds,
                y |-> tolist(frame, "y"),
                prices |-> tolist(frame, "y")] >>)

\* compress_data with the prices list taken from the second row on.
compress_data_prices_tail(frame) ==
    IF Len(frame) = 0 THEN Raise("IndexError")
    ELSE Ok(<< [unique_id |-> frame[1].unique_id,
                store_id |-> frame[1].store_id,
                item_id |-> frame[1].item_id,
                start_date |-> frame[1].ds,
                y |-> tolist(frame, "y"),
                prices |-> Tail(tolist(frame, "sell_price"))] >>)

\* compress_data refusing a group whose rows are not in ascending date order.
compress_data_checked(frame) ==
    IF Len(frame) = 0 THEN Raise("IndexError")
    ELSE IF \E i \in 1..(Len(frame) - 1) : frame[i].ds > frame[i + 1].ds
    THEN Raise("ValueError")
    ELSE Ok(<< [unique_id |-> frame[1].unique_id,
                store_id |-> frame[1].store_id,
                item_id |-> frame[1].item_id,
                start_date |-> frame[1].ds,
                y |-> tolist(frame, "y"),
                prices |-> tolist(frame, "sell_price")] >>)

\* compress_data with the identity and start date read from the last row.
compress_data_last_row(frame) ==
    IF Len(frame) = 0 THEN Raise("IndexError")
    ELSE Ok(<< [unique_id |-> frame[Len(frame)].unique_id,
                store_id |-> frame[Len(frame)].store_id,
                item_id |-> frame[Len(frame)].item_id,
                start_date |-> frame[Len(frame)].ds,
                y |-> tolist(frame, "y"),
                prices |-> tolist(frame, "sell_price")] >>)

compress_data(frame) ==
    IF Len(frame) = 0 THEN Raise("IndexError")
    ELSE Ok(<< [unique_id |-> frame[1].unique_id,
                store_id |-> frame[1].store_id,
                item_id |-> frame[1].item_id,
                start_date |-> frame[1].ds,
                y |-> tolist(frame, "y"),
                prices |-> tolist(frame, "sell_price")] >>)

(***************************************************************************)
(* format_series: reads the first record only; a daily date range of       *)
(* len(y) periods from start_date indexes y; prices is indexed by the same *)
(* range, which raises ValueError when its length differs.                 *)
(***************************************************************************)
\* date_range counting the periods from 1 instead of 0.
date_range_from_one(start, periods) == [i \in 1..periods |-> start + i]

\* pd.date_range with a frequency of two days.
date_range_two_days(start, periods) == [i \in 1..periods |-> start + 2 * (i - 1)]

date_range(start, periods) == [i \in 1..periods |-> start + (i - 1)]

\* format_series pairing y and prices up to the shorter of the two lists.
format_series_truncating(records) ==
    IF Len(records) = 0 THEN Raise("IndexError")
    ELSE LET row == records[1]
             n == IF Len(row.prices) < Len(row.y) THEN Len(row.prices) ELSE Len(row.y)
             dr == date_range(row.start_date, n)
         IN  Ok([i \in 1..n |->
                   [ds |-> dr[i], y |-> row.y[i], price |-> row.prices[i],
                    unique_id |-> row.unique_id]])

\* format_series labelling the rows with the record's item_id.
format_series_item_id(records) ==
    IF Len(records) = 0 THEN Raise("IndexError")
    ELSE LET row == records[1]
             dr == date_range(row.start_date, Len(row.y))
         IN  IF Len(row.prices) # Len(dr) THEN Raise("ValueError")
             ELSE Ok([i \in 1..Len(dr) |->
                        [ds |-> dr[i], y |-> row.y[i], price |-> row.prices[i],
                         unique_id |-> row.item_id]])

format_series(records) ==
    IF Len(records) = 0 THEN Raise("IndexError")
    ELSE LET row == records[1]
             dr == date_range(row.start_date, Len(row.y))
         IN  IF Len(row.prices) # Len(dr) THEN Raise("ValueError")
             ELSE Ok([i \in 1..Len(dr) |->
                        [ds |-> dr[i], y |-> row.y[i], price |-> row.prices[i],
                         unique_id |-> row.unique_id]])

(***************************************************************************)
(* The partitioned transform of compress_data: partition by store_id and   *)
(* item_id, presort ds ascending, one invocation per partition.            *)
(***************************************************************************)
\* Partitioning by store_id alone.
PartitionKey_store_only(row) == <<row.store_id>>

PartitionKey(row) == <<row.store_id, row.item_id>>

PartitionKeys(table) == {PartitionKey(table[i]) : i \in 1..Len(table)}

\* Grouping consecutive rows only: the partition ends at the first row of
\* another key that follows a row of this key.
RECURSIVE FirstRun(_, _, _)
FirstRun(table, key, started) ==
    IF Len(table) = 0 THEN <<>>
    ELSE IF PartitionKey(Head(table)) = key
         THEN <<Head(table)>> \o FirstRun(Tail(table), key, TRUE)
         ELSE IF started THEN <<>> ELSE FirstRun(Tail(table), key, FALSE)

Partition_consecutive(table, key) == FirstRun(table, key, FALSE)

Partition(table, key) == SelectSeq(table, LAMBDA row : PartitionKey(row) = key)

\* Position of the first row of smallest ds.
FirstMin(frame) ==
    CHOOSE i \in 1..Len(frame) :
        /\ \A j \in 1..Len(frame) : frame[i].ds <= frame[j].ds
        /\ \A j \in 1..(i - 1) : frame[j].ds > frame[i].ds

Without(frame, i) == SubSeq(frame, 1, i - 1) \o SubSeq(frame, i + 1, Len(frame))

\* A transform without the presort: the group keeps the table's row order.
Presort_none(frame) == frame

RECURSIVE Presort(_)
Presort(frame) ==
    IF Len(frame) = 0 THEN <<>>
    ELSE LET i == FirstMin(frame)
         IN  <<frame[i]>> \o Presort(Without(frame, i))

DispatchInit ==
    /\ combined \in Tables \cup {TwoSeriesTable}
    /\ pending = PartitionKeys(combined)
    /\ compressed = <<>>
    /\ calls = <<>>

\* A worker that keeps the rows of its previous invocation in its buffer.
TransformCompress_stale_buffer(key) ==
    /\ key \in pending
    /\ LET stale == IF calls = <<>> THEN <<>> ELSE calls[Len(calls)]
           group == stale \o Presort(Partition(combined, key))
           result == compress_data(group)
       IN  /\ calls' = Append(calls, group)
           /\ compressed' = compressed \o result.value
    /\ pending' = pending \ {key}
    /\ UNCHANGED <<combined, unitVars, evalVars>>

\* One partition is handed to compress_data; its records join the output.
TransformCompress(key) ==
    /\ key \in pending
    /\ LET group == Presort(Partition(combined, key))
           result == compress_data(group)
       IN  /\ calls' = Append(calls, group)
           /\ compressed' = compressed \o result.value
    /\ pending' = pending \ {key}
    /\ UNCHANGED <<combined, unitVars, evalVars>>

(***************************************************************************)
(* Direct calls, as in the notebook's test cells.                          *)
(***************************************************************************)
\* Hand-made Compact Record lists for format_series.
ValueLists == UNION {[1..n -> 1..2] : n \in 0..2}

RecordLists ==
    {<<>>} \cup
    {<< [unique_id |-> unique_id(k), store_id |-> store_id(k), item_id |-> item_id(k),
         start_date |-> d, y |-> ys, prices |-> ps] >> :
        k \in Series, d \in Dates, ys \in ValueLists, ps \in ValueLists}

CallCompress ==
    /\ out = NotCalled
    /\ arg = NotCalled
    /\ out' = compress_data(df)
    /\ arg' = IF out'.status = "ok" THEN Ok(out'.value) ELSE NotCalled
    /\ UNCHANGED <<df, test, dispatchVars, evalVars>>

CallFormat ==
    /\ test = NotCalled
    /\ arg.status = "ok"
    /\ test' = format_series(arg.value)
    /\ UNCHANGED <<df, out, arg, dispatchVars, evalVars>>

UnitIdle == df = <<>> /\ out = NotCalled /\ arg = NotCalled /\ test = NotCalled

EvalIdle ==
    /\ library = 0 /\ cell = "idle" /\ test2 = NotCalled /\ metrics = NotCalled
    /\ todo = {} /\ tasks = <<>> /\ results = NotCalled
    /\ unfit = {} /\ best_models = NotCalled

Init ==
    /\ DispatchInit
    /\ UnitIdle
    /\ EvalIdle

Next ==
    \E key \in pending : TransformCompress(key)

Spec == Init /\ [][Next]_vars

\* The functions called directly: compress_data on any group of rows (empty,
\* unsorted, mixed), then format_series on what it returned; or format_series
\* on a hand-made record list.
UnitInit ==
    /\ combined = <<>> /\ pending = {} /\ compressed = <<>> /\ calls = <<>>
    /\ test = NotCalled
    /\ out = NotCalled
    /\ EvalIdle
    /\ \/ df \in Tables \cup {SampleData} /\ arg = NotCalled
       \/ df = <<>> /\ arg \in {Ok(l) : l \in RecordLists}

UnitNext == CallCompress \/ CallFormat

SpecUnit == UnitInit /\ [][UnitNext]_vars

(***************************************************************************)
(* The evaluation: the forecasting library, run_model_cv, calculate_metrics *)
(* and process under the transform partitioned by unique_id.               *)
(***************************************************************************)
MaxExtra == 0       \* rows a long series may have beyond the shortest that back-tests
MaxLevel == 1       \* forecast levels the library's fitted behaviour ranges over
MaxBatch == 2       \* Compact Records handed to the process transform

H == 28             \* cross_validation(h=28, ...)
NWindows == 2       \* cross_validation(..., n_windows=2)
StepSize == 1       \* cross_validation's step_size, left at the library's default

\* The roster of run_model_cv and the names calculate_metrics loops over.
Models == <<"Naive", "CrostonClassic", "IMAPA", "ADIDA", "AutoARIMA">>
\* The list of calculate_metrics with ADIDA written twice and AutoARIMA left out.
MetricModels_adida_twice == <<"Naive", "CrostonClassic", "IMAPA", "ADIDA", "ADIDA">>

MetricModels == <<"Naive", "CrostonClassic", "IMAPA", "ADIDA", "AutoARIMA">>

\* The library's test span and the shortest series it can back-test: the test
\* span plus one row to fit on.
TestSize(h, n_windows) == h + StepSize * (n_windows - 1)
MinLength == TestSize(H, NWindows) + 1

\* Lengths of the series of the batch: a 10-point series, and long ones.
SeriesLengths == {10} \cup (MinLength..(MinLength + MaxExtra))

\* The Compact Record of n days of the series of key k, carrying the
\* unique_id of series u: its own or, for series 2, that of series 1 (an id
\* that does not follow the key).
EvalRecord(k, u, n) ==
    [unique_id |-> unique_id(u), store_id |-> store_id(k), item_id |-> item_id(k),
     start_date |-> k,
     y |-> [i \in 1..n |-> (i * (k + 1) + (i \div 3) + u) % 4],
     prices |-> [i \in 1..n |-> 100 * k + 50 + (i \div 7)]]

EvalRecords ==
    UNION {{EvalRecord(k, u, n) : u \in (IF k = 2 THEN {k, 1} ELSE {k}), n \in SeriesLengths} :
           k \in Series}

\* The series a record is of.
SeriesOf(record) ==
    CHOOSE k \in Series : PartitionKey(record) = <<store_id(k), item_id(k)>>

\* A compressed table: one record per (store_id, item_id), the series in
\* ascending or in descending order.
RECURSIVE BatchesUpTo(_)
BatchesUpTo(n) ==
    IF n = 0 THEN {<<>>}
    ELSE LET prev == BatchesUpTo(n - 1)
             longest == {t \in prev : Len(t) = n - 1}
             Fits(t, e) ==
                 /\ \A i \in 1..Len(t) : PartitionKey(t[i]) # PartitionKey(e)
                 /\ Len(t) >= 2 =>
                       ((SeriesOf(t[1]) < SeriesOf(t[2]))
                           <=> (SeriesOf(t[Len(t)]) < SeriesOf(e)))
         IN  prev \cup UNION {{Append(t, r) : r \in {e \in EvalRecords : Fits(t, e)}} :
                              t \in longest}

Batches == BatchesUpTo(MaxBatch) \ {<<>>}

Abs(x) == IF x < 0 THEN -x ELSE x

\* What a model of the roster forecasts for step i (1..h) after the training
\* values `train`.  Naive repeats the last training value.  The other four are
\* fitted by the library: their forecasts are whatever it computes, here a
\* level set by `library` (flat for the three intermittent-demand models, not
\* flat for AutoARIMA).
Forecast(model, train, i) ==
    CASE model = "Naive" -> train[Len(train)]
      [] model = "CrostonClassic" -> library
      [] model = "IMAPA" -> library
      [] model = "ADIDA" -> library + 1
      [] model = "AutoARIMA" -> library + ((Len(train) + i) % 2)

\* A back-test that fits every model once, on the whole series, and predicts
\* each window from that fit.
cross_validation_whole_fit(frame, roster, h, n_windows) ==
    LET n == Len(frame)
        test_size == TestSize(h, n_windows)
        last_date == frame[n].ds
        ys == [i \in 1..n |-> frame[i].y]
        Window(p) == (p - 1) \div h
        Step(p) == ((p - 1) % h) + 1
        Cut(w) == n - test_size + w * StepSize
    IN  IF n <= test_size THEN Raise("ValueError")
        ELSE IF \E model \in Range(roster) : <<frame[1].unique_id, model>> \in unfit
        THEN Raise("FitError")
        ELSE Ok([p \in 1..(h * n_windows) |->
                  [unique_id |-> frame[1].unique_id,
                   ds |-> last_date - test_size + Window(p) * StepSize + Step(p),
                   cutoff |-> last_date - test_size + Window(p) * StepSize,
                   y |-> ys[Cut(Window(p)) + Step(p)],
                   pred |-> [m \in Range(roster) |-> Forecast(m, ys, Step(p))]]])

\* StatsForecast(df, models, freq="D").cross_validation(h, n_windows): windows
\* w = 0..n_windows-1, each of h rows, the cutoff of window w after the first
\* n - test_size + w * step_size rows; every model is fitted on the rows up to
\* the cutoff.  A series with no row to fit on, or shorter than the test span,
\* makes the library raise; so does a model of the roster whose fit raises on
\* this series ("FitError" stands for the exception of the fitting routine).
cross_validation(frame, roster, h, n_windows) ==
    LET n == Len(frame)
        test_size == TestSize(h, n_windows)
        last_date == frame[n].ds
        ys == [i \in 1..n |-> frame[i].y]
        Window(p) == (p - 1) \div h
        Step(p) == ((p - 1) % h) + 1
        Cut(w) == n - test_size + w * StepSize
    IN  IF n <= test_size THEN Raise("ValueError")
        ELSE IF \E model \in Range(roster) : <<frame[1].unique_id, model>> \in unfit
        THEN Raise("FitError")
        ELSE Ok([p \in 1..(h * n_windows) |->
                  [unique_id |-> frame[1].unique_id,
                   ds |-> last_date - test_size + Window(p) * StepSize + Step(p),
                   cutoff |-> last_date - test_size + Window(p) * StepSize,
                   y |-> ys[Cut(Window(p)) + Step(p)],
                   pred |-> [m \in Range(roster) |->
                               Forecast(m, SubSeq(ys, 1, Cut(Window(p))), Step(p))]]])

\* run_model_cv leaving n_windows at the library's default of one window.
run_model_cv_one_window(frame) == cross_validation(frame, Models, H, 1)

run_model_cv(frame) == cross_validation(frame, Models, H, NWindows)

\* sklearn's mean_absolute_error as an exact fraction: the sum of |y - pred|
\* over the number of rows.
RECURSIVE SumAbsError(_, _, _)
SumAbsError(cv_df, model, n) ==
    IF n = 0 THEN 0
    ELSE SumAbsError(cv_df, model, n - 1) + Abs(cv_df[n].y - cv_df[n].pred[model])

\* The mean of the signed errors y - pred.
RECURSIVE SumError(_, _, _)
SumError(cv_df, model, n) ==
    IF n = 0 THEN 0
    ELSE SumError(cv_df, model, n - 1) + (cv_df[n].y - cv_df[n].pred[model])

mean_error(cv_df, model) ==
    [num |-> SumError(cv_df, model, Len(cv_df)), den |-> Len(cv_df)]

mean_absolute_error(cv_df, model) ==
    [num |-> SumAbsError(cv_df, model, Len(cv_df)), den |-> Len(cv_df)]

\* calculate_metrics: one row per name of its list, with the unique_id of the
\* first row of the cross-validation result; an empty result raises.
calculate_metrics(cv_df) ==
    IF Len(cv_df) = 0 THEN Raise("ValueError")
    ELSE Ok([j \in 1..Len(MetricModels) |->
               [models |-> MetricModels[j],
                metric |-> mean_absolute_error(cv_df, MetricModels[j]),
                unique_id |-> cv_df[1].unique_id]])

\* process: expand, back-test, reduce; an exception of a step leaves process.
process(records) ==
    LET timeseries == format_series(records)
    IN  IF timeseries.status # "ok" THEN timeseries
        ELSE LET model_cv == run_model_cv(timeseries.value)
             IN  IF model_cv.status # "ok" THEN model_cv
                 ELSE calculate_metrics(model_cv.value)

\* Partitioning by store: the records of the store of the first record of `id`.
PartitionById_by_store(table, id) ==
    LET first == CHOOSE i \in 1..Len(table) : table[i].unique_id = id
    IN  SelectSeq(table, LAMBDA record : record.store_id = table[first].store_id)

PartitionById(table, id) == SelectSeq(table, LAMBDA record : record.unique_id = id)

\* The fits that raise in a run: none, or AutoARIMA's on the series of id 1
\* (a failing fit does not depend on the level, and is run at level 0).
UnfitChoices == {{}, {<<unique_id(1), "AutoARIMA">>}}

EvalInit ==
    /\ combined = <<>> /\ pending = {} /\ calls = <<>>
    /\ df = <<>> /\ out = NotCalled /\ arg = NotCalled /\ test = NotCalled
    /\ compressed \in Batches
    /\ library \in 0..MaxLevel
    /\ unfit \in UnfitChoices
    /\ unfit # {} => library = 0
    /\ best_models = NotCalled
    /\ cell = "format_series"
    /\ test2 = NotCalled
    /\ metrics = NotCalled
    /\ todo = {compressed[i].unique_id : i \in 1..Len(compressed)}
    /\ tasks = <<>>
    /\ results = NotCalled

\* test = format_series(compressed.iloc[0:1].to_dict("records"))
CellFormat ==
    /\ cell = "format_series"
    /\ arg' = Ok(SubSeq(compressed, 1, 1))
    /\ test' = format_series(arg'.value)
    /\ cell' = "run_model_cv"
    /\ UNCHANGED <<dispatchVars, df, out, library, test2, metrics, todo, tasks, results,
                   unfit, best_models>>

\* test2 = run_model_cv(test); test is undefined when its cell raised.
CellRunCV ==
    /\ cell = "run_model_cv"
    /\ test2' = IF test.status = "ok" THEN run_model_cv(test.value) ELSE Raise("NameError")
    /\ cell' = "calculate_metrics"
    /\ UNCHANGED <<dispatchVars, unitVars, library, metrics, todo, tasks, results,
                   unfit, best_models>>

\* calculate_metrics(test2)
CellMetrics ==
    /\ cell = "calculate_metrics"
    /\ metrics' = IF test2.status = "ok" THEN calculate_metrics(test2.value)
                  ELSE Raise("NameError")
    /\ cell' = "transform"
    /\ UNCHANGED <<dispatchVars, unitVars, library, test2, todo, tasks, results,
                   unfit, best_models>>

\* The transform with a unique_id variable shared by the tasks: a task stamps
\* its rows with the id the task before it left there.
TransformProcess_shared_id(id) ==
    /\ cell = "transform"
    /\ id \in todo
    /\ LET part == PartitionById(compressed, id)
           result == process(part)
           shared == IF tasks = <<>> THEN id ELSE tasks[Len(tasks)][1].unique_id
       IN  /\ tasks' = Append(tasks, part)
           /\ IF result.status = "ok"
              THEN /\ results' = Ok(results.value \o
                                      [i \in 1..Len(result.value) |->
                                         [result.value[i] EXCEPT !.unique_id = shared]])
                   /\ todo' = todo \ {id}
                   /\ cell' = IF todo' = {} THEN "done" ELSE "transform"
              ELSE /\ results' = Raise(result.status)
                   /\ todo' = {}
                   /\ cell' = "failed"
    /\ UNCHANGED <<dispatchVars, unitVars, library, test2, metrics, unfit, best_models>>

\* transform(compressed, process, partition by unique_id): one partition is
\* handed to process.  Its rows join the output; an exception ends the
\* transform with that exception and no output.
TransformProcess(id) ==
    /\ cell = "transform"
    /\ id \in todo
    /\ LET part == PartitionById(compressed, id)
           result == process(part)
       IN  /\ tasks' = Append(tasks, part)
           /\ IF result.status = "ok"
              THEN /\ results' = Ok(results.value \o result.value)
                   /\ todo' = todo \ {id}
                   /\ cell' = IF todo' = {} THEN "done" ELSE "transform"
              ELSE /\ results' = Raise(result.status)
                   /\ todo' = {}
                   /\ cell' = "failed"
    /\ UNCHANGED <<dispatchVars, unitVars, library, test2, metrics, unfit, best_models>>

\* metric a <= metric b, for fractions of positive denominator.
MetricLeq(a, b) == a.num * b.den <= b.num * a.den

\* The unique_id values of a table, ascending (the order of groupby's keys).
RECURSIVE SortedIds(_)
SortedIds(ids) ==
    IF ids = {} THEN <<>>
    ELSE LET least == CHOOSE id \in ids : \A other \in ids : id[2] <= other[2]
         IN  <<least>> \o SortedIds(ids \ {least})

\* The rows of `table` that a descending sort by metric can leave first among
\* the rows of unique_id `id`.
FirstOfSorted_descending(table, id) ==
    {i \in 1..Len(table) :
        /\ table[i].unique_id = id
        /\ \A j \in 1..Len(table) :
              table[j].unique_id = id => MetricLeq(table[j].metric, table[i].metric)}

\* sort_values('metric', ascending=True) then groupby("unique_id").first():
\* the rows of `table` that the sort can leave first among the rows of
\* unique_id `id`.  The sort is not stable, so any row of least metric can
\* come first.
FirstOfSorted(table, id) ==
    {i \in 1..Len(table) :
        /\ table[i].unique_id = id
        /\ \A j \in 1..Len(table) :
              table[j].unique_id = id => MetricLeq(table[i].metric, table[j].metric)}

\* best_models = results.sort_values(...).groupby("unique_id").first(): one
\* row per unique_id, in key order.  results is undefined when the transform
\* raised.
BestModels ==
    /\ cell \in {"done", "failed"}
    /\ IF results.status = "ok"
       THEN LET table == results.value
                ids == {table[i].unique_id : i \in 1..Len(table)}
                keys == SortedIds(ids)
                firsts == [id \in ids |-> FirstOfSorted(table, id)]
            IN  \E pick \in [ids -> UNION {firsts[id] : id \in ids}] :
                   /\ \A id \in ids : pick[id] \in firsts[id]
                   /\ best_models' = Ok([j \in 1..Len(keys) |->
                          [unique_id |-> keys[j],
                           models |-> table[pick[keys[j]]].models,
                           metric |-> table[pick[keys[j]]].metric]])
       ELSE best_models' = Raise("NameError")
    /\ cell' = "end"
    /\ UNCHANGED <<dispatchVars, unitVars, library, test2, metrics, todo, tasks,
                   results, unfit>>

EvalNext ==
    \/ CellFormat
    \/ CellRunCV
    \/ CellMetrics
    \/ \E id \in todo : TransformProcess(id)
    \/ BestModels

SpecEval == EvalInit /\ [][EvalNext]_vars

(***************************************************************************)
(* Properties of the direct calls (SpecUnit).                              *)
(***************************************************************************)
SortedByDate(frame) ==
    \A i, j \in 1..Len(frame) : i < j => frame[i].ds <= frame[j].ds

Compressed == out.status # "not called"
Expanded == test.status # "not called"

\* C1: round trip.  For a non-empty group of n rows sorted ascending by date,
\* format_series applied to the record compress_data returned gives exactly n
\* rows whose y and price are the group's y and sell_price, position by position.
C1_RoundTrip ==
    (Len(df) > 0 /\ SortedByDate(df) /\ Compressed /\ Expanded) =>
        /\ test.status = "ok"
        /\ Len(test.value) = Len(df)
        /\ \A i \in 1..Len(df) :
              /\ test.value[i].y = df[i].y
              /\ test.value[i].price = df[i].sell_price

C1_Witness ==
    /\ Len(df) = 3 /\ SortedByDate(df) /\ Compressed
    /\ test.status = "ok"
    /\ \E i, j \in 1..3 : df[i].y # df[j].y /\ df[i].sell_price # df[j].sell_price

\* C2: for a Compact Record (its two lists of equal length) format_series gives
\* exactly len(y) rows; the first ds is start_date and every row's ds is the
\* previous row's plus one day.
C2_DailyDates ==
    (Expanded /\ arg.status = "ok" /\ Len(arg.value) > 0
        /\ Len(arg.value[1].y) = Len(arg.value[1].prices)) =>
        /\ test.status = "ok"
        /\ Len(test.value) = Len(arg.value[1].y)
        /\ Len(test.value) > 0 => test.value[1].ds = arg.value[1].start_date
        /\ \A i \in 2..Len(test.value) :
              test.value[i].ds = test.value[i - 1].ds + 1

C2_Witness ==
    /\ test.status = "ok"
    /\ Len(test.value) = 3
    /\ test.value[3].ds = arg.value[1].start_date + 2
    /\ arg.value[1].start_date > 1

\* C6: for a non-empty group compress_data returns one record: unique_id,
\* store_id, item_id and start_date of the first row, y and prices the whole
\* y and sell_price columns in row order; the sample frame gives start_date
\* 2 January, y [1,2,3], prices [2.2,3.3,4.4].
C6_FirstRowAndLists ==
    (Compressed /\ Len(df) > 0) =>
        /\ out.status = "ok"
        /\ Len(out.value) = 1
        /\ out.value[1].unique_id = df[1].unique_id
        /\ out.value[1].store_id = df[1].store_id
        /\ out.value[1].item_id = df[1].item_id
        /\ out.value[1].start_date = df[1].ds
        /\ Len(out.value[1].y) = Len(df)
        /\ Len(out.value[1].prices) = Len(df)
        /\ \A i \in 1..Len(df) :
              /\ out.value[1].y[i] = df[i].y
              /\ out.value[1].prices[i] = df[i].sell_price
        /\ df = SampleData =>
              /\ out.value[1].start_date = 2
              /\ out.value[1].y = <<1, 2, 3>>
              /\ out.value[1].prices = <<22, 33, 44>>

C6_Witness ==
    /\ Compressed
    /\ Len(df) = 3
    /\ df[1].unique_id # df[3].unique_id
    /\ df[1].ds # df[3].ds
    /\ out.value[1].unique_id = df[1].unique_id

\* C10: an empty group, or a group whose rows are not sorted ascending by
\* date, is rejected by compress_data: the call raises and returns no record.
C10_MalformedRejected ==
    (Compressed /\ (Len(df) = 0 \/ ~SortedByDate(df))) =>
        /\ out.status # "ok"
        /\ out.value = <<>>

(***************************************************************************)
(* Properties of the partitioned transform of compress_data (Spec).        *)
(***************************************************************************)
TransformDone == pending = {}

RowKeys == {<<combined[i].store_id, combined[i].item_id>> : i \in 1..Len(combined)}

RecordKey(record) == <<record.store_id, record.item_id>>

\* C3: the transform emits as many Compact Records as the input table has
\* distinct (store_id, item_id) keys: exactly one record for each key.
C3_Cardinality ==
    TransformDone =>
        /\ Len(compressed) = Cardinality(RowKeys)
        /\ \A key \in RowKeys :
              Cardinality({i \in 1..Len(compressed) : RecordKey(compressed[i]) = key}) = 1

C3_Witness ==
    /\ TransformDone
    /\ Cardinality(RowKeys) = 2
    /\ Len(combined) = 3
    /\ Len(compressed) = 2

\* C4: no row is handed to two invocations, every invocation gets all the rows
\* of one key and only those, and once the transform is done every row of the
\* table is in the group of exactly one invocation, the one that emitted the
\* record of its key, in whatever order the groups ran.
RowsOfKey(key) ==
    {combined[i] : i \in {j \in 1..Len(combined) :
                             <<combined[j].store_id, combined[j].item_id>> = key}}

C4_PartitionComplete ==
    /\ Len(compressed) = Len(calls)
    /\ \A c \in 1..Len(calls) :
          /\ Len(calls[c]) = Cardinality(Range(calls[c]))
          /\ Range(calls[c]) = RowsOfKey(RecordKey(compressed[c]))
    /\ \A c, e \in 1..Len(calls) :
          c # e => Range(calls[c]) \cap Range(calls[e]) = {}
    /\ TransformDone =>
          \A i \in 1..Len(combined) :
              Cardinality({c \in 1..Len(calls) : combined[i] \in Range(calls[c])}) = 1

C4_Witness ==
    /\ TransformDone
    /\ combined = TwoSeriesTable
    /\ Len(calls) = 2
    /\ Len(calls[1]) = 3

\* C7: the set of Compact Records the transform produces, each with the
\* contents of its lists, is fixed by the input table alone: the same for
\* every order in which the groups are processed.  Two series of lengths 5
\* and 3 give two records with lists of lengths 5 and 3.
SortedRowsOfKey(key) ==
    CHOOSE frame \in [1..Cardinality(RowsOfKey(key)) -> RowsOfKey(key)] :
        \A i, j \in 1..Len(frame) : i < j => frame[i].ds < frame[j].ds

RecordOfKey(key) ==
    LET frame == SortedRowsOfKey(key)
    IN  [unique_id |-> frame[1].unique_id, store_id |-> key[1], item_id |-> key[2],
         start_date |-> frame[1].ds,
         y |-> [i \in 1..Len(frame) |-> frame[i].y],
         prices |-> [i \in 1..Len(frame) |-> frame[i].sell_price]]

C7_OrderIndependent ==
    TransformDone =>
        /\ Range(compressed) = {RecordOfKey(key) : key \in RowKeys}
        /\ combined = TwoSeriesTable =>
              {<<Len(r.y), Len(r.prices)>> : r \in Range(compressed)} = {<<5, 5>>, <<3, 3>>}

C7_Witness ==
    /\ TransformDone
    /\ combined = TwoSeriesTable
    /\ Len(compressed) = 2
    /\ Len(compressed[1].y) = 3
    /\ Len(compressed[2].y) = 5

(***************************************************************************)
(* Properties of the evaluation (SpecEval).                                *)
(***************************************************************************)
\* The sum of the absolute errors of `model` over the rows of a
\* cross-validation result, counted error unit by error unit.
ErrorUnits(cv_df, model) ==
    UNION {{<<p, u>> : u \in 1..Abs(cv_df[p].y - cv_df[p].pred[model])} :
           p \in 1..Len(cv_df)}

\* C5: for every model of the roster calculate_metrics emits a metric that is
\* not negative and is the mean of |y - prediction| over all rows of the
\* cross-validation result, the rows of every window together.
C5_MetricIsMeanAbsError ==
    metrics.status = "ok" =>
        /\ \A j \in 1..Len(Models) :
              \E i \in 1..Len(metrics.value) : metrics.value[i].models = Models[j]
        /\ \A i \in 1..Len(metrics.value) :
              LET row == metrics.value[i]
              IN  /\ row.metric.den = Len(test2.value)
                  /\ row.metric.den = H * NWindows
                  /\ row.metric.num = Cardinality(ErrorUnits(test2.value, row.models))
                  /\ row.metric.num >= 0

C5_Witness ==
    /\ metrics.status = "ok"
    /\ \E i \in 1..Len(metrics.value) :
          LET m == metrics.value[i].models
          IN  /\ metrics.value[i].metric.num > 0
              /\ \E p \in 1..H : test2.value[p].y < test2.value[p].pred[m]
              /\ \E p \in (H + 1)..(2 * H) : test2.value[p].y > test2.value[p].pred[m]

\* C8 as stated: the back-test runs at the configured h = 2, n_windows = 1, so
\* that a 10-point series yields exactly 2 prediction rows per model.
C8_TenPointsTwoRows ==
    (test.status = "ok" /\ Len(test.value) = 10 /\ test2.status # "not called") =>
        /\ test2.status = "ok"
        /\ Len(test2.value) = 2

\* C8 amended: run_model_cv fixes h = 28 and n_windows = 2; whenever it
\* returns, its result has h * n_windows = 56 rows, h rows for each of the
\* n_windows cutoffs, every row with one prediction for each of the five
\* models of the roster.
Cutoffs(cv_df) == {cv_df[p].cutoff : p \in 1..Len(cv_df)}

C8_FixedHorizonRows ==
    test2.status = "ok" =>
        /\ Len(test2.value) = H * NWindows
        /\ Len(test2.value) = 56
        /\ Cardinality(Cutoffs(test2.value)) = NWindows
        /\ \A c \in Cutoffs(test2.value) :
              Cardinality({p \in 1..Len(test2.value) : test2.value[p].cutoff = c}) = H
        /\ \A p \in 1..Len(test2.value) :
              /\ DOMAIN test2.value[p].pred = Range(Models)
              /\ Cardinality(DOMAIN test2.value[p].pred) = 5

C8_Witness ==
    /\ test2.status = "ok"
    /\ Len(test.value) >= MinLength
    /\ Len(test2.value) = 56

\* C9: each processed series contributes exactly one Metric Record for each
\* model of the roster of run_model_cv (five) and none under another name,
\* and no (unique_id, models) pair occurs twice in the table of the transform.
MetricRows(table, id) == {i \in 1..Len(table) : table[i].unique_id = id}

C9_OneRecordPerSeriesAndModel ==
    /\ metrics.status = "ok" =>
          /\ Len(metrics.value) = Len(Models)
          /\ {metrics.value[i].models : i \in 1..Len(metrics.value)} = Range(Models)
    /\ results.status = "ok" =>
          /\ Len(results.value) = Len(Models) * Len(tasks)
          /\ \A c \in 1..Len(tasks) :
                LET rows == MetricRows(results.value, tasks[c][1].unique_id)
                IN  /\ Cardinality(rows) = Len(Models)
                    /\ {results.value[i].models : i \in rows} = Range(Models)
          /\ Cardinality({<<results.value[i].unique_id, results.value[i].models>> :
                             i \in 1..Len(results.value)}) = Len(results.value)

C9_Witness ==
    /\ cell = "done"
    /\ Len(tasks) = 2
    /\ Len(results.value) = 10

\* C11: a record whose y and prices lists differ in length makes format_series
\* fail with an error; it returns no Expanded Series, truncated, padded or
\* otherwise.
C11_LengthMismatchFails ==
    (Expanded /\ arg.status = "ok" /\ Len(arg.value) > 0
        /\ Len(arg.value[1].y) # Len(arg.value[1].prices)) =>
        /\ test.status = "ValueError"
        /\ test.value = <<>>

C11_Witness ==
    /\ Expanded
    /\ arg.status = "ok" /\ Len(arg.value) > 0
    /\ Len(arg.value[1].y) = 2
    /\ Len(arg.value[1].prices) = 1
    /\ test.status = "ValueError"

\* C12: a model whose fit fails for one series is caught for that (series,
\* model) pair: the transform is not aborted, and the series still has its
\* rows in the final table, the failed model's metric marked missing.
C12_FailureIsolated ==
    \A c \in 1..Len(tasks) :
        (/\ Len(tasks[c][1].y) >= MinLength
         /\ \E model \in Range(Models) : <<tasks[c][1].unique_id, model>> \in unfit) =>
            /\ cell # "failed"
            /\ results.status = "ok"
            /\ \A model \in Range(MetricModels) :
                  \E i \in 1..Len(results.value) :
                      /\ results.value[i].unique_id = tasks[c][1].unique_id
                      /\ results.value[i].models = model

\* C13: the final table of the process transform, as a set of (models, metric,
\* unique_id) rows, is fixed by the compressed table alone: whatever the order
\* in which the tasks ran, it holds for each unique_id and model the mean
\* absolute error of that series' own back-test, and every task was handed
\* the partition of its own id.
IdsOf(table) == {table[i].unique_id : i \in 1..Len(table)}

FirstRecordOf(table, id) ==
    table[CHOOSE i \in 1..Len(table) :
             /\ table[i].unique_id = id
             /\ \A j \in 1..(i - 1) : table[j].unique_id # id]

SeriesMetrics(record) ==
    LET cv_df == run_model_cv(format_series(<<record>>).value).value
    IN  {[models |-> model,
          metric |-> [num |-> Cardinality(ErrorUnits(cv_df, model)), den |-> Len(cv_df)],
          unique_id |-> record.unique_id] : model \in Range(Models)}

C13_OrderIndependent ==
    /\ \A c \in 1..Len(tasks) :
          tasks[c] = PartitionById(compressed, tasks[c][1].unique_id)
    /\ cell = "done" =>
          Range(results.value) =
              UNION {SeriesMetrics(FirstRecordOf(compressed, id)) : id \in IdsOf(compressed)}

C13_Witness ==
    /\ cell = "done"
    /\ Len(tasks) = 2
    /\ compressed[1].unique_id = unique_id(1)
    /\ tasks[1][1].unique_id = unique_id(2)
    /\ \E i, j \in 1..Len(results.value) :
          /\ results.value[i].models = results.value[j].models
          /\ results.value[i].metric # results.value[j].metric

(***************************************************************************)
(* Further properties of the partitioned transform of compress_data (Spec). *)
(***************************************************************************)
\* C14: every Compact Record compress_data emits has y and prices of one
\* length, the number of rows of the group it was made from, which is the
\* number of rows of its key in the table.
C14_ListLengths ==
    \A c \in 1..Len(compressed) :
        /\ Len(compressed[c].y) = Len(compressed[c].prices)
        /\ Len(compressed[c].y) = Len(calls[c])
        /\ Len(compressed[c].y) = Cardinality(RowsOfKey(RecordKey(compressed[c])))

C14_Witness ==
    /\ TransformDone
    /\ combined = TwoSeriesTable
    /\ \E c \in 1..Len(compressed) :
          Len(compressed[c].prices) = 5 /\ Len(calls[c]) = 5
    /\ \E c \in 1..Len(compressed) :
          Len(compressed[c].prices) = 3 /\ Len(calls[c]) = 3

\* C15: the start_date of every Compact Record of the transform is the
\* smallest ds among the rows of its key in the table, whatever the order of
\* the table's rows.
MinDate(rows) == CHOOSE d \in {r.ds : r \in rows} : \A r \in rows : d <= r.ds

C15_StartDateIsMin ==
    \A c \in 1..Len(compressed) :
        compressed[c].start_date = MinDate(RowsOfKey(RecordKey(compressed[c])))

C15_Witness ==
    /\ TransformDone
    /\ Len(combined) = 3
    /\ Len(compressed) = 1
    /\ combined[1].ds = 3
    /\ combined[3].ds = 1
    /\ compressed[1].start_date = 1

(***************************************************************************)
(* Further properties of the direct calls (SpecUnit).                      *)
(***************************************************************************)
Contiguous(frame) ==
    \A i \in 1..(Len(frame) - 1) : frame[i + 1].ds = frame[i].ds + 1

StrictlyAscending(frame) ==
    \A i \in 1..(Len(frame) - 1) : frame[i].ds < frame[i + 1].ds

\* C16: for a series in ascending date order whose dates are distinct and
\* contiguous day by day, compressing and then expanding gives back every
\* row's date with its own value and price: the (ds, y, price) triples of the
\* result are those of the series.  For a series in ascending order with a
\* calendar date missing, the expanded date of every row after the gap
\* differs from the row's original date.
C16_DateRoundTrip ==
    (Len(df) > 0 /\ Compressed /\ Expanded) =>
        /\ Contiguous(df) =>
              /\ test.status = "ok"
              /\ {<<r.ds, r.y, r.price>> : r \in Range(test.value)} =
                    {<<r.ds, r.y, r.sell_price>> : r \in Range(df)}
        /\ StrictlyAscending(df) =>
              \A i \in 1..(Len(df) - 1) :
                  df[i + 1].ds > df[i].ds + 1 =>
                      \A j \in (i + 1)..Len(df) : test.value[j].ds # df[j].ds

C16_Witness ==
    /\ Len(df) = 3 /\ Contiguous(df)
    /\ Compressed /\ test.status = "ok"
    /\ test.value[3].ds = df[3].ds
    /\ test.value[3].y = df[3].y
    /\ df[1].ds > 0

\* C17: compress_data does not check the order of the rows.  For a non-empty
\* group that is not in ascending date order it returns a record without an
\* error, start_date the date of the first row, the lists in the given row
\* order; expanding that record attaches a value to a date that is not the
\* date of its row.
C17_UnsortedAccepted ==
    (Compressed /\ Len(df) > 0 /\ ~SortedByDate(df)) =>
        /\ out.status = "ok"
        /\ Len(out.value) = 1
        /\ out.value[1].start_date = df[1].ds
        /\ \A i \in 1..Len(df) :
              /\ out.value[1].y[i] = df[i].y
              /\ out.value[1].prices[i] = df[i].sell_price
        /\ Expanded =>
              /\ test.status = "ok"
              /\ \E i \in 1..Len(df) :
                    /\ test.value[i].y = df[i].y
                    /\ test.value[i].ds # df[i].ds

C17_Witness ==
    /\ Compressed /\ Expanded
    /\ Len(df) = 3
    /\ df[1].ds > df[2].ds
    /\ out.status = "ok"
    /\ out.value[1].start_date = df[1].ds
    /\ \E i \in 1..Len(df) : df[i].ds < out.value[1].start_date
    /\ test.value[2].ds > df[2].ds

(***************************************************************************)
(* Further properties of the evaluation (SpecEval).                        *)
(***************************************************************************)
\* The y of the observation of `frame` dated d.
Observed(frame, d) == frame[CHOOSE i \in 1..Len(frame) : frame[i].ds = d].y

C19_BestIsMinimum ==
    best_models.status = "ok" =>
        /\ Len(best_models.value) = Cardinality(IdsOf(results.value))
        /\ \A id \in IdsOf(results.value) :
              Cardinality({j \in 1..Len(best_models.value) :
                              best_models.value[j].unique_id = id}) = 1
        /\ \A j \in 1..Len(best_models.value) :
              LET best == best_models.value[j]
                  rows == MetricRows(results.value, best.unique_id)
              IN  /\ rows # {}
                  /\ \E i \in rows :
                        /\ results.value[i].models = best.models
                        /\ results.value[i].metric = best.metric
                  /\ \A i \in rows :
                        best.metric.num * results.value[i].metric.den
                            <= results.value[i].metric.num * best.metric.den

C19_Witness ==
    /\ best_models.status = "ok"
    /\ Len(best_models.value) = 2
    /\ best_models.value[1].models # best_models.value[2].models
    /\ \E j \in 1..2 : best_models.value[j].models # "Naive"
    /\ \E i \in 1..Len(results.value) :
          /\ results.value[i].unique_id = best_models.value[1].unique_id
          /\ results.value[i].metric.num > best_models.value[1].metric.num

\* unique_id is in one-to-one correspondence with (store_id, item_id) in the
\* compressed table.
OneToOne ==
    \A i, j \in 1..Len(compressed) :
        (compressed[i].unique_id = compressed[j].unique_id)
            <=> (PartitionKey(compressed[i]) = PartitionKey(compressed[j]))

\* C20: when unique_id is one-to-one with (store_id, item_id), every
\* invocation of process receives exactly one Compact Record, and a completed
\* transform has invoked process once per record of the compressed table.
\* format_series reads only the first record of the partition, so in a
\* completed transform every record was expanded by some invocation exactly
\* when the correspondence holds; otherwise a record was handed over and
\* ignored.
C20_OneRecordPerInvocation ==
    /\ \A c \in 1..Len(tasks) : Len(tasks[c]) >= 1
    /\ OneToOne => \A c \in 1..Len(tasks) : Len(tasks[c]) = 1
    /\ (results.status = "ok" /\ todo = {}) =>
          /\ OneToOne <=>
                (\A i \in 1..Len(compressed) :
                    \E c \in 1..Len(tasks) : tasks[c][1] = compressed[i])
          /\ OneToOne => Len(tasks) = Len(compressed)
          /\ ~OneToOne => Len(tasks) < Len(compressed)

C20_Witness ==
    /\ results.status = "ok" /\ todo = {}
    /\ OneToOne
    /\ Len(compressed) = 2
    /\ Len(tasks) = 2
    /\ Len(tasks[1]) = 1 /\ Len(tasks[2]) = 1

\* C21: series identity is carried end to end.  When every task has succeeded,
\* the unique_id values of the final table are exactly those of the records of
\* the compressed table, and the rows a task contributed - one per name of
\* the metric list, in completion order - carry the unique_id of the record
\* that task expanded, the first of its partition.
C21_IdentityCarried ==
    results.status = "ok" =>
        /\ todo = {} => IdsOf(results.value) = IdsOf(compressed)
        /\ \A c \in 1..Len(tasks) :
              \A j \in 1..Len(MetricModels) :
                  results.value[Len(MetricModels) * (c - 1) + j].unique_id
                      = tasks[c][1].unique_id

C21_Witness ==
    /\ results.status = "ok" /\ todo = {}
    /\ Len(tasks) = 2
    /\ compressed[1].unique_id = unique_id(1)
    /\ tasks[1][1].unique_id = unique_id(2)
    /\ results.value[1].unique_id = unique_id(2)
    /\ results.value[Len(results.value)].unique_id = unique_id(1)
    /\ IdsOf(results.value) = {unique_id(1), unique_id(2)}

=============================================================================
